---------------------------- MODULE Spec2Model ----------------------------
(***************************************************************************)
(* Snow Monitor data fetcher (fetch-data.js): model of the lift-name       *)
(* matcher, the snowfall window sums, the avalanche aggregation and the    *)
(* run of main with its fetches and its two file writes.                   *)
(*                                                                         *)
(* Strings the code inspects character by character are sequences of       *)
(* one-character strings; dates "YYYY-MM-DD" are day numbers (the string   *)
(* order of ISO dates is the order of the days).                           *)
(***************************************************************************)
EXTENDS Integers, Sequences, FiniteSets, TLC

VARIABLES
  \* matchLiftHours
  liftName, hours, matched, mpc,
  \* snowfall windows of generateHTML
  now, romeOffset, times, snows, today, fresh3, next3, next7, spc,
  \* fetchAvalancheData's aggregation
  bulletin, assessment, apc,
  \* fetchLiftSchedule's scan of the schedule page
  page, extracted, xpc,
  \* generateHTML's station row and snow report of one record
  stationData, statusData, stationRow, snowReport, vpc,
  \* main
  resorts, pc, ri, si, fst, furl, fbody,
  avalanche, weather, lifts, skirama, schedule, allData,
  failed, fetched, docsHtml, docsJson, thrownAt

matchVars == <<liftName, hours, matched, mpc>>
snowVars  == <<now, romeOffset, times, snows, today, fresh3, next3, next7, spc>>
avalVars  == <<bulletin, assessment, apc>>
schedVars == <<page, extracted, xpc>>
viewVars  == <<stationData, statusData, stationRow, snowReport, vpc>>
mainVars  == <<resorts, pc, ri, si, fst, furl, fbody, avalanche, weather, lifts,
               skirama, schedule, allData, failed, fetched, docsHtml, docsJson,
               thrownAt>>
vars == <<matchVars, snowVars, avalVars, schedVars, viewVars, mainVars>>

\* JavaScript's null (and undefined, where the code does not tell them apart).
NULL == [null |-> TRUE]

\* A number held where the code may also hold null.
Num(n) == [num |-> n]

Range(s) == {s[i] : i \in 1..Len(s)}

RECURSIVE SeqSum(_)
SeqSum(s) == IF s = <<>> THEN 0 ELSE Head(s) + SeqSum(Tail(s))

(***************************************************************************)
(* Strings                                                                 *)
(***************************************************************************)

\* \s of the regular expressions, as far as the names of the model go.
IsSpace(c) == c \in {" ", "\t"}

\* [\s\-] of the token split.
IsSep(c) == IsSpace(c) \/ c = "-"

Lowers ==
  <<"a","b","c","d","e","f","g","h","i","j","k","l","m",
    "n","o","p","q","r","s","t","u","v","w","x","y","z">>

Uppers ==
  <<"A","B","C","D","E","F","G","H","I","J","K","L","M",
    "N","O","P","Q","R","S","T","U","V","W","X","Y","Z">>

UpperChar(c) ==
  IF \E i \in 1..Len(Lowers) : Lowers[i] = c
  THEN Uppers[CHOOSE i \in 1..Len(Lowers) : Lowers[i] = c]
  ELSE c

\* The case folding of a regular expression with the i flag.
LowerChar(c) ==
  IF \E i \in 1..Len(Uppers) : Uppers[i] = c
  THEN Lowers[CHOOSE i \in 1..Len(Uppers) : Uppers[i] = c]
  ELSE c

\* String.prototype.toUpperCase
ToUpperCase(s) == [i \in 1..Len(s) |-> UpperChar(s[i])]

\* s.replace(/\s+/g, ' '): every maximal run of whitespace becomes one space.
RECURSIVE CollapseFrom(_, _)
CollapseFrom(s, i) ==
  IF i > Len(s) THEN <<>>
  ELSE IF IsSpace(s[i])
       THEN IF i > 1 /\ IsSpace(s[i-1])
            THEN CollapseFrom(s, i + 1)
            ELSE <<" ">> \o CollapseFrom(s, i + 1)
       ELSE <<s[i]>> \o CollapseFrom(s, i + 1)

CollapseWs(s) == CollapseFrom(s, 1)

\* The first index from i on that holds no whitespace (Len(s) + 1 if none).
RECURSIVE SkipSpaces(_, _)
SkipSpaces(s, i) ==
  IF i <= Len(s) /\ IsSpace(s[i]) THEN SkipSpaces(s, i + 1) ELSE i

\* The last index down from i that holds no whitespace (0 if none).
RECURSIVE SkipSpacesBack(_, _)
SkipSpacesBack(s, i) ==
  IF i >= 1 /\ IsSpace(s[i]) THEN SkipSpacesBack(s, i - 1) ELSE i

\* String.prototype.trim
Trim(s) == SubSeq(s, SkipSpaces(s, 1), SkipSpacesBack(s, Len(s)))

DigitChars == <<"0","1","2","3","4","5","6","7","8","9">>

IsDigit(c) == \E i \in 1..Len(DigitChars) : DigitChars[i] = c

DigitVal(c) == (CHOOSE i \in 1..Len(DigitChars) : DigitChars[i] = c) - 1

\* parseInt of a run of digits.
RECURSIVE ParseIntFrom(_, _, _)
ParseIntFrom(ds, i, acc) ==
  IF i > Len(ds) THEN acc ELSE ParseIntFrom(ds, i + 1, acc * 10 + DigitVal(ds[i]))

ParseInt(ds) == ParseIntFrom(ds, 1, 0)

\* Number.prototype.toString of a natural number.
RECURSIVE ToStr(_)
ToStr(n) ==
  IF n < 10 THEN <<DigitChars[n + 1]>>
  ELSE ToStr(n \div 10) \o <<DigitChars[(n % 10) + 1]>>

\* .padStart(2, '0')
PadStart2(s) == IF Len(s) < 2 THEN <<"0">> \o s ELSE s

\* String.prototype.includes
Includes(s, t) ==
  \E i \in 0..(Len(s) - Len(t)) : SubSeq(s, i + 1, i + Len(t)) = t

\* s.split(/[\s\-]+/): the pieces between maximal runs of separators (an
\* empty piece before a leading and after a trailing run, as in JavaScript).
RECURSIVE SplitFrom(_, _, _)
SplitFrom(s, i, cur) ==
  IF i > Len(s) THEN <<cur>>
  ELSE IF IsSep(s[i])
       THEN IF i > 1 /\ IsSep(s[i-1])
            THEN SplitFrom(s, i + 1, cur)
            ELSE <<cur>> \o SplitFrom(s, i + 1, <<>>)
       ELSE SplitFrom(s, i + 1, Append(cur, s[i]))

SplitWords(s) == SplitFrom(s, 1, <<>>)

\* Tokens of length > 2 do not count as meaningful words.
MinTokenLen == 2

IsMeaningful(w) == Len(w) > MinTokenLen

\* .split(/[\s\-]+/).filter(w => w.length > 2)
MeaningfulWords(s) == SelectSeq(SplitWords(s), IsMeaningful)

(***************************************************************************)
(* matchLiftHours(liftName, hours).  hours is the object built by          *)
(* fetchLiftSchedule: a sequence of entries in insertion order, which is   *)
(* the order Object.entries walks them in.                                 *)
(***************************************************************************)

\* The least overlap the token step accepts.
MinOverlap == 2

NormalizeName(n) == CollapseWs(ToUpperCase(n))

\* hours[name]: the entry under the key, or null.
Lookup(h, name) ==
  IF \E i \in 1..Len(h) : h[i].key = name
  THEN h[CHOOSE i \in 1..Len(h) : h[i].key = name]
  ELSE NULL

ContainsEitherWay(name, key) ==
  name = key \/ Includes(name, key) \/ Includes(key, name)

\* The first entry, in the object's order, whose key contains the name or is
\* contained in it.
FirstContaining(h, name) ==
  IF \E i \in 1..Len(h) : ContainsEitherWay(name, h[i].key)
  THEN h[CHOOSE i \in 1..Len(h) :
           /\ ContainsEitherWay(name, h[i].key)
           /\ \A j \in 1..(i-1) : ~ContainsEitherWay(name, h[j].key)]
  ELSE NULL

\* nameWords.filter(w => keyWords.includes(w)).length
Overlap(nameWords, keyWords) ==
  Len(SelectSeq(nameWords, LAMBDA w : w \in Range(keyWords)))

\* The loop of lines 120-124: [best, bestScore] after the entries i..Len(h).
RECURSIVE BestFrom(_, _, _, _, _)
BestFrom(h, nameWords, i, best, bestScore) ==
  IF i > Len(h) THEN [best |-> best, bestScore |-> bestScore]
  ELSE LET overlap == Overlap(nameWords, MeaningfulWords(h[i].key))
       IN  IF overlap > bestScore
           THEN BestFrom(h, nameWords, i + 1, h[i], overlap)
           ELSE BestFrom(h, nameWords, i + 1, best, bestScore)

TokenOverlapMatch(h, name) ==
  LET r == BestFrom(h, MeaningfulWords(name), 1, NULL, 0)
  IN  IF r.bestScore >= MinOverlap THEN r.best ELSE NULL

\* The matcher without its first line: the containment loop decides.
MatchWithoutExactLookup(n, h) ==
  LET name == NormalizeName(n)
  IN  IF FirstContaining(h, name) # NULL THEN FirstContaining(h, name)
      ELSE TokenOverlapMatch(h, name)

matchLiftHours(n, h) ==
  LET name == NormalizeName(n)
  IN  IF Lookup(h, name) # NULL THEN Lookup(h, name)
      ELSE IF FirstContaining(h, name) # NULL THEN FirstContaining(h, name)
      ELSE TokenOverlapMatch(h, name)

\* --- inputs of the matcher ------------------------------------------------

MaxKeys == 2

\* Words of status names (any case) and of schedule keys (upper case, as
\* fetchLiftSchedule stores them); "ab"/"AB" is too short to count.
NameWordPool == { <<"a","a","a">>, <<"B","B","B">>, <<"a","b">> }
KeyWordPool  == { <<"A","A","A">>, <<"B","B","B">>, <<"A","B">> }

NameSeps == { <<" ">>, <<" ", "\t">>, <<"-">> }
KeySeps  == { <<" ">>, <<"-">> }

NamePool ==
  NameWordPool \cup
  { a \o s \o b : a \in NameWordPool, s \in NameSeps, b \in NameWordPool }

\* The empty key is what fetchLiftSchedule stores for a label that is only a
\* prefix and a parenthetical number.
KeyPool ==
  { <<>> } \cup KeyWordPool \cup
  { a \o s \o b : a \in KeyWordPool, s \in KeySeps, b \in KeyWordPool }

\* Objects of at most MaxKeys entries with distinct keys; entry i holds the
\* hours parsed for block i.
HoursOf(ks) ==
  [i \in 1..Len(ks) |-> [key |-> ks[i], val |-> i]]

KeySeqs ==
  UNION { { ks \in [1..n -> KeyPool] : \A i, j \in 1..n : i # j => ks[i] # ks[j] }
          : n \in 0..MaxKeys }

IdleMatch ==
  /\ liftName = <<>> /\ hours = <<>> /\ matched = NULL /\ mpc = "off"

InitMatch ==
  /\ liftName \in NamePool
  /\ hours \in { HoursOf(ks) : ks \in KeySeqs }
  /\ matched = NULL
  /\ mpc = "call"

\* generateHTML line 202: h = matchLiftHours(l.name, schedule.hours)
MatchLift ==
  /\ mpc = "call"
  /\ matched' = matchLiftHours(liftName, hours)
  /\ mpc' = "returned"
  /\ UNCHANGED <<liftName, hours>>

\* One call of the matcher and nothing else.
NextMatch == MatchLift /\ UNCHANGED <<snowVars, avalVars, schedVars, viewVars, mainVars>>

(***************************************************************************)
(* Snowfall windows (generateHTML, lines 236-263).  times and snows are    *)
(* daily.time and daily.snowfall_sum of the top station, the amounts in    *)
(* tenths of a centimetre.  now is the instant at which line 242 runs, in  *)
(* hours since the start of day 0 in UTC, and romeOffset the hours that    *)
(* Europe/Rome is ahead of UTC at that instant.                            *)
(***************************************************************************)

\* new Date().toISOString().slice(0, 10): the date of the instant in UTC.
ToISODate(t) == t \div 24

\* The date of the instant in Europe/Rome, the calendar of daily.time
\* (timezone=Europe/Rome in the request of line 32).
RomeDate(t, offset) == (t + offset) \div 24

\* Number.prototype.toFixed(1) of an amount held in tenths.
ToFixed1(tenths) == ToStr(tenths \div 10) \o <<".">> \o ToStr(tenths % 10)

\* The near-term sum takes the first entries from today on, this many.
NearTermCount == 3

\* A missing value taken for a tenth of snow.
MissingAsSnow(v) == IF v = NULL THEN 1 ELSE v.num

\* snows[i] || 0
OrZero(v) == IF v = NULL THEN 0 ELSE v.num

\* Lines 245-248.
RECURSIVE FreshLoop(_, _, _, _, _)
FreshLoop(ts, sn, td, i, acc) ==
  IF i > Len(ts) THEN acc
  ELSE IF ts[i] < td
       THEN FreshLoop(ts, sn, td, i + 1, acc + OrZero(sn[i]))
       ELSE FreshLoop(ts, sn, td, i + 1, acc)

\* Lines 250-258: [next3, next7] after the entries i..Len(ts).
RECURSIVE FutureLoop(_, _, _, _, _, _, _)
FutureLoop(ts, sn, td, i, n3, n7, futureCount) ==
  IF i > Len(ts) THEN [next3 |-> n3, next7 |-> n7]
  ELSE IF ts[i] >= td
       THEN FutureLoop(ts, sn, td, i + 1,
                       IF futureCount < NearTermCount
                       THEN n3 + OrZero(sn[i]) ELSE n3,
                       n7 + OrZero(sn[i]),
                       futureCount + 1)
       ELSE FutureLoop(ts, sn, td, i + 1, n3, n7, futureCount)

\* --- inputs of the windows ------------------------------------------------

MaxDay == 7
MaxSeries == 3

Days == 0..MaxDay

\* Hours of the day in UTC at which the run executes: midnight and the last
\* two hours of the day.
ClockHours == { 0, 22, 23 }

\* Central European time and summer time.
RomeOffsets == { 1, 2 }

Instants == { d * 24 + h : d \in Days, h \in ClockHours }

\* A daily value: missing, 0 or some snow.
DailyValues == { NULL, Num(0), Num(1) }

\* Series sorted ascending by date without duplicates.
SeriesPool ==
  UNION { { ts \in [1..n -> Days] : \A i, j \in 1..n : i < j => ts[i] < ts[j] }
          : n \in 0..MaxSeries }

IdleSnow ==
  /\ now = 0 /\ romeOffset = 0
  /\ times = <<>> /\ snows = <<>> /\ today = 0
  /\ fresh3 = 0 /\ next3 = 0 /\ next7 = 0 /\ spc = "off"

InitSnow ==
  /\ times \in SeriesPool
  /\ snows \in [1..Len(times) -> DailyValues]
  /\ now \in Instants
  /\ romeOffset \in RomeOffsets
  /\ today = 0
  /\ fresh3 = 0 /\ next3 = 0 /\ next7 = 0
  /\ spc = "call"

\* Lines 240-258.
SumWindows ==
  /\ spc = "call"
  /\ today' = ToISODate(now)
  /\ fresh3' = FreshLoop(times, snows, today', 1, 0)
  /\ LET r == FutureLoop(times, snows, today', 1, 0, 0, 0)
     IN  next3' = r.next3 /\ next7' = r.next7
  /\ spc' = "done"
  /\ UNCHANGED <<now, romeOffset, times, snows>>

\* Lines 259-263: the three figures of the snow forecast.
SnowForecastInfo ==
  [fresh |-> ToFixed1(fresh3), next3d |-> ToFixed1(next3), next7d |-> ToFixed1(next7)]

NextSnow == SumWindows /\ UNCHANGED <<matchVars, avalVars, schedVars, viewVars, mainVars>>

(***************************************************************************)
(* Avalanche aggregation (fetchAvalancheData, lines 410-435) over a parsed *)
(* bulletin document.                                                      *)
(***************************************************************************)

\* dangerMap[r.mainValue] || 1
dangerMap(v) ==
  CASE v = "low" -> 1
    [] v = "moderate" -> 2
    [] v = "considerable" -> 3
    [] v = "high" -> 4
    [] v = "very_high" -> 5
    [] OTHER -> 1

labelMap(l) ==
  CASE l = 1 -> "Low" [] l = 2 -> "Moderate" [] l = 3 -> "Considerable"
    [] l = 4 -> "High" [] l = 5 -> "Very High"

colorMap(l) ==
  CASE l = 1 -> "#4CAF50" [] l = 2 -> "#FFEB3B" [] l = 3 -> "#FF9800"
    [] l = 4 -> "#F44336" [] l = 5 -> "#000"

emojiMap(l) ==
  CASE l = 1 -> "green" [] l = 2 -> "yellow" [] l = 3 -> "orange"
    [] l = 4 -> "red" [] l = 5 -> "black"

\* An array held where the document may also hold nothing.
List(xs) == [items |-> xs]

\* x || [] for a list that may be absent.
OrEmpty(x) == IF x = NULL THEN <<>> ELSE x.items

\* The inner loop keeping the level of the last rating seen.
RatingsLoopLast(rs, j, maxLevel) ==
  IF Len(rs) = 0 THEN maxLevel ELSE dangerMap(rs[Len(rs)].mainValue)

\* The inner loop, lines 420-423.
RECURSIVE RatingsLoop(_, _, _)
RatingsLoop(rs, j, maxLevel) ==
  IF j > Len(rs) THEN maxLevel
  ELSE LET level == dangerMap(rs[j].mainValue)
       IN  RatingsLoop(rs, j + 1, IF level > maxLevel THEN level ELSE maxLevel)

\* The outer loop, lines 419-424.
RECURSIVE BulletinsLoop(_, _, _)
BulletinsLoop(bs, i, maxLevel) ==
  IF i > Len(bs) THEN maxLevel
  ELSE BulletinsLoop(bs, i + 1,
                     RatingsLoop(OrEmpty(bs[i].dangerRatings), 1, maxLevel))

\* Lines 412-435: the assessment returned for a parsed document.
AggregateBulletin(data) ==
  LET maxLevel == BulletinsLoop(OrEmpty(data.bulletins), 1, 1)
  IN  [level |-> maxLevel,
       label |-> labelMap(maxLevel),
       color |-> colorMap(maxLevel),
       emoji |-> emojiMap(maxLevel)]

\* --- inputs of the aggregation --------------------------------------------

MaxBulletins == 2
MaxRatings == 1

\* The five categories and one the map does not know.
MainValues == {"low", "moderate", "considerable", "high", "very_high", "n/a"}

RatingPool == { [mainValue |-> v] : v \in MainValues }

BulletinPool ==
  { [dangerRatings |-> NULL] } \cup
  { [dangerRatings |-> List(rs)] : rs \in UNION { [1..n -> RatingPool] : n \in 0..MaxRatings } }

DocPool ==
  { [bulletins |-> NULL] } \cup
  { [bulletins |-> List(bs)] : bs \in UNION { [1..n -> BulletinPool] : n \in 0..MaxBulletins } }

IdleAval ==
  /\ bulletin = NULL /\ assessment = NULL /\ apc = "off"

InitAval ==
  /\ bulletin \in DocPool
  /\ assessment = NULL
  /\ apc = "parsed"

Aggregate ==
  /\ apc = "parsed"
  /\ assessment' = AggregateBulletin(bulletin)
  /\ apc' = "returned"
  /\ UNCHANGED bulletin

NextAval == Aggregate /\ UNCHANGED <<matchVars, snowVars, schedVars, viewVars, mainVars>>

(***************************************************************************)
(* fetchLiftSchedule (lines 81-103) over the page it fetched.  The page is *)
(* a sequence of elements, paragraphs <p> and lists <ul>, each with its    *)
(* inner text; the en dash is the character "ndash".                       *)
(***************************************************************************)

\* The words of liftTypeRe.
Gondola   == <<"G", "o", "n", "d", "o", "l", "a">>
Chairlift == <<"C", "h", "a", "i", "r", "l", "i", "f", "t">>
Funicular == <<"F", "u", "n", "i", "c", "u", "l", "a", "r">>
Funifor   == <<"F", "u", "n", "i", "f", "o", "r">>
Cableway  == <<"C", "a", "b", "l", "e", "w", "a", "y">>
Tapis     == <<"T", "a", "p", "i", "s">>
Roulant   == <<"R", "o", "u", "l", "a", "n", "t">>
Roulan    == <<"R", "o", "u", "l", "a", "n">>

LiftTypeWords == <<Gondola, Chairlift, Funicular, Funifor, Cableway>>

\* w stands at index i of s, in any case.
StartsWithAt(s, i, w) ==
  /\ i + Len(w) - 1 <= Len(s)
  /\ \A k \in 1..Len(w) : LowerChar(s[i + k - 1]) = LowerChar(w[k])

\* w\s+ at index i: the last index matched, 0 for no match.
WordThenSpaces(s, i, w) ==
  IF StartsWithAt(s, i, w) /\ SkipSpaces(s, i + Len(w)) > i + Len(w)
  THEN SkipSpaces(s, i + Len(w)) - 1
  ELSE 0

\* Tapis(?:\s+Roulant?)?\s+ at the start: the group with the t, without it,
\* or not at all, in the order the expression tries them.
TapisEnd(s) ==
  LET j == SkipSpaces(s, Len(Tapis) + 1)
  IN  IF ~StartsWithAt(s, 1, Tapis) \/ j = Len(Tapis) + 1 THEN 0
      ELSE IF WordThenSpaces(s, j, Roulant) > 0 THEN WordThenSpaces(s, j, Roulant)
      ELSE IF WordThenSpaces(s, j, Roulan) > 0 THEN WordThenSpaces(s, j, Roulan)
      ELSE j - 1

\* liftTypeRe (line 83) on s: the last index of the match, 0 for no match.
LiftTypeEnd(s) ==
  IF \E i \in 1..Len(LiftTypeWords) : WordThenSpaces(s, 1, LiftTypeWords[i]) > 0
  THEN WordThenSpaces(s, 1,
         LiftTypeWords[CHOOSE i \in 1..Len(LiftTypeWords) :
                         WordThenSpaces(s, 1, LiftTypeWords[i]) > 0])
  ELSE TapisEnd(s)

\* [\d,\-\s]
IsQualifierChar(c) == IsDigit(c) \/ c \in {",", "-"} \/ IsSpace(c)

\* \([\d,\-\s]+\) at index i.
QualifierAt(s, i) ==
  /\ s[i] = "("
  /\ \E j \in (i + 2)..Len(s) :
       s[j] = ")" /\ \A k \in (i + 1)..(j - 1) : IsQualifierChar(s[k])

\* .replace(/\s*\([\d,\-\s]+\).*/, ''): the text before the first such
\* parenthesis and the whitespace in front of it.
StripQualifier(s) ==
  IF \E i \in 1..Len(s) : QualifierAt(s, i)
  THEN LET i == CHOOSE i \in 1..Len(s) :
                  QualifierAt(s, i) /\ \A k \in 1..(i - 1) : ~QualifierAt(s, k)
       IN  SubSeq(s, 1, SkipSpacesBack(s, i - 1))
  ELSE s

\* Line 94.
CanonicalName(pText) ==
  ToUpperCase(Trim(StripQualifier(
    SubSeq(pText, LiftTypeEnd(pText) + 1, Len(pText)))))

IsTimeSep(c) == c \in {".", ":"}

IsDash(c) == c \in {"ndash", "-"}

\* The first index from i on that holds no digit.
RECURSIVE DigitsEnd(_, _)
DigitsEnd(s, i) ==
  IF i <= Len(s) /\ IsDigit(s[i]) THEN DigitsEnd(s, i + 1) ELSE i

\* (\d+)[.:](\d+) at index i.
ClockAt(s, i) ==
  LET a == DigitsEnd(s, i)
  IN  IF a > i /\ a <= Len(s) /\ IsTimeSep(s[a]) /\ DigitsEnd(s, a + 1) > a + 1
      THEN [h |-> SubSeq(s, i, a - 1),
            m |-> SubSeq(s, a + 1, DigitsEnd(s, a + 1) - 1),
            next |-> DigitsEnd(s, a + 1)]
      ELSE NULL

\* timeRe (line 84) at index i: the four captures, or null.
RangeAt(s, i) ==
  LET o == ClockAt(s, i)
  IN  IF o = NULL THEN NULL
      ELSE LET d == SkipSpaces(s, o.next)
           IN  IF d <= Len(s) /\ IsDash(s[d])
               THEN LET c == ClockAt(s, SkipSpaces(s, d + 1))
                    IN  IF c = NULL THEN NULL
                        ELSE [oH |-> o.h, oM |-> o.m, cH |-> c.h, cM |-> c.m]
               ELSE NULL

\* ulText.match(timeRe): the leftmost match.
TimeMatch(s) ==
  IF \E i \in 1..Len(s) : RangeAt(s, i) # NULL
  THEN RangeAt(s, CHOOSE i \in 1..Len(s) :
                    RangeAt(s, i) # NULL /\ \A k \in 1..(i - 1) : RangeAt(s, k) = NULL)
  ELSE NULL

\* `${h}:${m.toString().padStart(2,'0')}` of line 97.
ClockString(h, m) == ToStr(h) \o <<":">> \o PadStart2(ToStr(m))

\* Line 102.
toTime(mins) == ToStr(mins \div 60) \o <<":">> \o PadStart2(ToStr(mins % 60))

\* hours[name] = val: an existing key keeps its place.
SetEntry(h, name, val) ==
  IF \E i \in 1..Len(h) : h[i].key = name
  THEN [i \in 1..Len(h) |-> IF h[i].key = name THEN [key |-> name, val |-> val] ELSE h[i]]
  ELSE Append(h, [key |-> name, val |-> val])

\* The markup between the paragraphs a..b, tags replaced by spaces.
RECURSIVE JoinTexts(_, _, _)
JoinTexts(doc, a, b) ==
  IF a = b THEN doc[a].text
  ELSE doc[a].text \o <<" ", " ">> \o JoinTexts(doc, a + 1, b)

\* Lines 89-90 without the tags.
CleanText(t) == Trim(CollapseWs(t))

\* The loop of lines 88-101 from element i on.  blockRe matches from the
\* first <p> to the first </p> that a <ul> follows, so its first group runs
\* over every paragraph in between.
RECURSIVE ScanBlocks(_, _, _, _, _)
ScanBlocks(doc, i, h, earliest, latest) ==
  LET starts == { a \in i..Len(doc) : doc[a].kind = "p" }
      done == [hours |-> h, earliest |-> earliest, latest |-> latest]
  IN  IF starts = {} THEN done
      ELSE
        LET a == CHOOSE x \in starts : \A y \in starts : x <= y
            ends == { b \in a..(Len(doc) - 1) :
                        doc[b].kind = "p" /\ doc[b + 1].kind = "ul" }
        IN  IF ends = {} THEN done
            ELSE
              LET b == CHOOSE x \in ends : \A y \in ends : x <= y
                  pText == CleanText(JoinTexts(doc, a, b))
                  ulText == CleanText(doc[b + 1].text)
                  timeMatch == TimeMatch(ulText)
              IN  IF LiftTypeEnd(pText) = 0 \/ timeMatch = NULL
                  THEN ScanBlocks(doc, b + 2, h, earliest, latest)
                  ELSE
                    LET oH == ParseInt(timeMatch.oH)
                        oM == ParseInt(timeMatch.oM)
                        cH == ParseInt(timeMatch.cH)
                        cM == ParseInt(timeMatch.cM)
                        oMins == oH * 60 + oM
                        cMins == cH * 60 + cM
                    IN  ScanBlocks(doc, b + 2,
                          SetEntry(h, CanonicalName(pText),
                                   [open |-> ClockString(oH, oM),
                                    close |-> ClockString(cH, cM)]),
                          IF earliest = NULL \/ oMins < earliest.num
                          THEN Num(oMins) ELSE earliest,
                          IF latest = NULL \/ cMins > latest.num
                          THEN Num(cMins) ELSE latest)

\* Lines 82-103: what fetchLiftSchedule returns for a fetched page.
ScheduleOf(doc) ==
  LET r == ScanBlocks(doc, 1, <<>>, NULL, NULL)
  IN  [hours |-> r.hours,
       generalOpen |-> IF r.earliest # NULL THEN [str |-> toTime(r.earliest.num)] ELSE NULL,
       generalClose |-> IF r.latest # NULL THEN [str |-> toTime(r.latest.num)] ELSE NULL]

\* --- inputs of the schedule scan ------------------------------------------

MaxElements == 4

Paragraph(t) == [kind |-> "p", text |-> t]

ListOf(t) == [kind |-> "ul", text |-> t]

\* Labels: a lift with a numbered qualifier, the same lift under another
\* type word in lower case, a people-mover, a label that is only a type word
\* and a number, and a paragraph that names no lift type.
LabelPool ==
  { <<"G", "o", "n", "d", "o", "l", "a", " ", "a", "a", "a", " ", "(", "1", ")">>,
    <<"c", "h", "a", "i", "r", "l", "i", "f", "t", " ", " ", "a", "a", "a">>,
    <<"T", "a", "p", "i", "s", " ", "R", "o", "u", "l", "a", "n", "t", " ", "b", "b", "b">>,
    <<"G", "o", "n", "d", "o", "l", "a", " ", "(", "1", ")">>,
    <<"S", "k", "i", "l", "i", "f", "t", " ", "a", "a", "a">> }

\* Lists: two with a time range and one without.
ListPool ==
  { <<"9", ".", "0", "0", " ", "ndash", " ", "1", "6", ".", "3", "0">>,
    <<"8", ":", "3", "0", "-", "1", "6", ".", "5", " ", "x">>,
    <<"c", "l", "o", "s", "e", "d">> }

ElementPool ==
  { Paragraph(t) : t \in LabelPool } \cup { ListOf(t) : t \in ListPool }

PagePool == UNION { [1..n -> ElementPool] : n \in 0..MaxElements }

IdleSched ==
  /\ page = <<>> /\ extracted = NULL /\ xpc = "off"

InitSched ==
  /\ page \in PagePool
  /\ extracted = NULL
  /\ xpc = "fetched"

\* Lines 81-103 after the await of line 80.
ExtractSchedule ==
  /\ xpc = "fetched"
  /\ extracted' = ScheduleOf(page)
  /\ xpc' = "returned"
  /\ UNCHANGED page

NextSched == ExtractSchedule /\ UNCHANGED <<matchVars, snowVars, avalVars, viewVars, mainVars>>

(***************************************************************************)
(* main (lines 442-470) with the fetchers it awaits and fetch (12-27).     *)
(*                                                                         *)
(* pc is main's position: the stage whose fetcher it awaits, then          *)
(* "generate", "writeHtml", "writeJson", and "done" (exit code 0) or       *)
(* "exit" (line 470: process.exit(1)).  fst is the state of the one fetch  *)
(* in progress and furl the URL it last requested.  fetched and failed     *)
(* record which fetches have settled and which of them failed (in the      *)
(* transport, by status or in JSON.parse).                                 *)
(***************************************************************************)

MaxResorts == 2

\* A resort with one station and every page configured, and one with two
\* stations and no page URL.
PagesResort ==
  [name |-> "pages", elevations |-> <<"top">>,
   onTheSnowUrl |-> TRUE, skiramaUrl |-> TRUE, liftScheduleUrl |-> TRUE]

StationsResort ==
  [name |-> "stations", elevations |-> <<"top", "mid">>,
   onTheSnowUrl |-> FALSE, skiramaUrl |-> FALSE, liftScheduleUrl |-> FALSE]

ResortPool == { PagesResort, StationsResort }

ResortLists == UNION { [1..n -> ResortPool] : n \in 0..MaxResorts }

\* Where a redirect may point.
Locations == { "locA", "locB" }

\* What the files of docs/ hold.
Previous == [run |-> "previous"]
Truncated == [run |-> "truncated"]
Snapshot(data) == [run |-> "this", resorts |-> data]

\* --- the values a stage leaves in the record ------------------------------

\* JSON.parse of a forecast body: a forecast, or a document of another shape.
GoodReading == [current |-> "present", daily |-> "series"]
OddReading  == [current |-> "present", daily |-> "malformed"]

\* Line 45.
NullLifts ==
  [liftsOpen |-> NULL, liftsTotal |-> NULL, runsOpen |-> NULL, runsTotal |-> NULL,
   kmOpen |-> NULL, baseDepth |-> NULL, summitDepth |-> NULL, condition |-> NULL]

\* Lines 49-69 on a status page that shows every figure.
ParsedLifts ==
  [liftsOpen |-> Num(5), liftsTotal |-> Num(10), runsOpen |-> Num(3),
   runsTotal |-> Num(8), kmOpen |-> Num(12), baseDepth |-> Num(40),
   summitDepth |-> Num(120), condition |-> [str |-> "Powder"]]

\* Lines 129 and 144.
EmptySkirama == [lifts |-> <<>>, pistes |-> <<>>]

\* Lines 132-141 on a live map with one lift and one slope.
ParsedSkirama ==
  [lifts |-> << [name |-> "lift", status |-> "open"] >>,
   pistes |-> << [name |-> "slope", status |-> "closed"] >>]

\* Lines 78 and 106.
NoSchedule == [hours |-> <<>>, generalOpen |-> NULL, generalClose |-> NULL]

\* Lines 82-103 on a schedule page with one block.
ParsedSchedule ==
  [hours |-> << [key |-> <<"A","A","A">>, val |-> 1] >>,
   generalOpen |-> [str |-> "9:00"], generalClose |-> [str |-> "16:30"]]

\* The bulletin a good response carries.
SampleBulletin ==
  [bulletins |-> List(<< [dangerRatings |-> List(<< [mainValue |-> "considerable"] >>)] >>)]

\* --- fetch (lines 12-27) ----------------------------------------------------

CurrentResort == resorts[ri]

CurrentStation == CurrentResort.elevations[si]

\* The bodies a source may answer with: JSON sources may send text that
\* does not parse; the top forecast may parse to another shape.
Bodies ==
  CASE pc = "avalanche" -> {"good", "garbage"}
    [] pc = "weather" ->
         IF CurrentStation = "top" THEN {"good", "garbage", "odd"}
         ELSE {"good", "garbage"}
    [] OTHER -> {"good"}

otherMain == <<resorts, pc, ri, si, avalanche, weather, lifts, skirama, schedule,
               allData, failed, fetched, docsHtml, docsJson, thrownAt>>

notMain == <<matchVars, snowVars, avalVars, schedVars, viewVars>>

\* mod.get(url, ...): the request is out.
BeginFetch ==
  /\ fst' = "inflight" /\ furl' = "source" /\ fbody' = "none"

EndFetch ==
  /\ fst' = "idle" /\ furl' = "none" /\ fbody' = "none"

\* Lines 19-23: a status below 400 (and no redirect): resolve(data).
RespondOk ==
  /\ fst = "inflight"
  /\ \E b \in Bodies : fbody' = b
  /\ fst' = "resolved" /\ furl' = "none"
  /\ UNCHANGED <<otherMain, notMain>>

\* Lines 16-18: a 3xx with a location: fetch(location).then(resolve, reject).
\* (A redirect to the URL just requested leaves the state as it is.)
RespondRedirect ==
  /\ fst = "inflight"
  /\ \E loc \in Locations \ {furl} : furl' = loc
  /\ UNCHANGED <<fst, fbody, otherMain, notMain>>

\* Line 22: a status of 400 or more: reject.
RespondHttpError ==
  /\ fst = "inflight"
  /\ fst' = "rejected" /\ furl' = "none"
  /\ UNCHANGED <<fbody, otherMain, notMain>>

\* Line 25: .on('error', reject).
TransportError ==
  /\ fst = "inflight"
  /\ fst' = "rejected" /\ furl' = "none"
  /\ UNCHANGED <<fbody, otherMain, notMain>>

\* The source accepts the request and never responds: no callback of fetch
\* is ever called, and fetch arms no timer.
ServerSilent ==
  /\ fst = "inflight"
  /\ fst' = "hung"
  /\ UNCHANGED <<furl, fbody, otherMain, notMain>>

Settled == fst \in {"resolved", "rejected"}

\* The awaited fetch resolved with a body JSON.parse accepts / the page text.
GotBody == fst = "resolved" /\ fbody # "garbage"

\* The ghost record of a settled fetch.
Record(id, isFailure) ==
  /\ fetched' = fetched \cup {id}
  /\ failed' = IF isFailure THEN failed \cup {id} ELSE failed

\* --- main and the fetchers --------------------------------------------------

\* After line 447 and after line 456: the next resort, or line 459.
ToResort(i) ==
  IF i <= Len(resorts)
  THEN /\ pc' = "weather" /\ ri' = i /\ si' = 1
  ELSE /\ pc' = "generate" /\ ri' = 0 /\ si' = 0

\* Line 446 -> 409.
Start ==
  /\ pc = "start"
  /\ pc' = "avalanche"
  /\ BeginFetch
  /\ UNCHANGED <<resorts, ri, si, avalanche, weather, lifts, skirama, schedule,
                 allData, failed, fetched, docsHtml, docsJson, thrownAt, notMain>>

\* Lines 436-439 without the catch: a failure leaves the fetcher and main.
AvalancheSettledNoCatch ==
  /\ pc = "avalanche" /\ Settled
  /\ Record(<<0, "avalanche">>, ~GotBody)
  /\ IF GotBody
     THEN /\ avalanche' = AggregateBulletin(SampleBulletin)
          /\ ToResort(1)
          /\ UNCHANGED thrownAt
     ELSE /\ pc' = "exit" /\ thrownAt' = "fetchAvalancheData"
          /\ UNCHANGED <<avalanche, ri, si>>
  /\ EndFetch
  /\ UNCHANGED <<resorts, weather, lifts, skirama, schedule, allData,
                 docsHtml, docsJson, notMain>>

\* Lines 410-439, then 447-449.
AvalancheSettled ==
  /\ pc = "avalanche" /\ Settled
  /\ avalanche' = IF GotBody THEN AggregateBulletin(SampleBulletin) ELSE NULL
  /\ Record(<<0, "avalanche">>, ~GotBody)
  /\ ToResort(1)
  /\ EndFetch
  /\ UNCHANGED <<resorts, weather, lifts, skirama, schedule, allData,
                 docsHtml, docsJson, thrownAt, notMain>>

\* Lines 31-34: the next station's request.
WeatherCall ==
  /\ pc = "weather" /\ fst = "idle"
  /\ si <= Len(CurrentResort.elevations)
  /\ BeginFetch
  /\ UNCHANGED <<otherMain, notMain>>

\* Lines 35-39 without the try: a failure leaves fetchOpenMeteo and main.
WeatherSettledNoCatch ==
  /\ pc = "weather" /\ Settled
  /\ Record(<<ri, CurrentStation>>, ~GotBody)
  /\ IF GotBody
     THEN /\ weather' = Append(weather,
                               IF fbody = "odd" THEN OddReading ELSE GoodReading)
          /\ si' = si + 1
          /\ UNCHANGED <<pc, thrownAt>>
     ELSE /\ pc' = "exit" /\ thrownAt' = "fetchOpenMeteo"
          /\ UNCHANGED <<weather, si>>
  /\ EndFetch
  /\ UNCHANGED <<resorts, ri, avalanche, lifts, skirama, schedule, allData,
                 docsHtml, docsJson, notMain>>

\* Lines 35-39: results[station] is the parsed forecast, or null.
WeatherSettled ==
  /\ pc = "weather" /\ Settled
  /\ weather' = Append(weather,
                       IF ~GotBody THEN NULL
                       ELSE IF fbody = "odd" THEN OddReading ELSE GoodReading)
  /\ Record(<<ri, CurrentStation>>, ~GotBody)
  /\ si' = si + 1
  /\ EndFetch
  /\ UNCHANGED <<resorts, pc, ri, avalanche, lifts, skirama, schedule, allData,
                 docsHtml, docsJson, thrownAt, notMain>>

\* main awaiting the live map before the status page (lines 452 and 453
\* exchanged).
WeatherReturnToSkirama ==
  /\ pc = "weather" /\ fst = "idle"
  /\ si > Len(CurrentResort.elevations)
  /\ pc' = "skirama"
  /\ UNCHANGED <<resorts, ri, si, fst, furl, fbody, avalanche, weather, lifts,
                 skirama, schedule, allData, failed, fetched, docsHtml, docsJson,
                 thrownAt, notMain>>

\* Line 41 -> 452.
WeatherReturn ==
  /\ pc = "weather" /\ fst = "idle"
  /\ si > Len(CurrentResort.elevations)
  /\ pc' = "lifts"
  /\ UNCHANGED <<resorts, ri, si, fst, furl, fbody, avalanche, weather, lifts,
                 skirama, schedule, allData, failed, fetched, docsHtml, docsJson,
                 thrownAt, notMain>>

\* Line 47; fetch(undefined) throws at line 13, inside the try.
LiftsCall ==
  /\ pc = "lifts" /\ fst = "idle"
  /\ IF CurrentResort.onTheSnowUrl
     THEN BeginFetch
     ELSE fst' = "rejected" /\ UNCHANGED <<furl, fbody>>
  /\ UNCHANGED <<otherMain, notMain>>

\* Lines 48-74 -> 453.
LiftsSettled ==
  /\ pc = "lifts" /\ Settled
  /\ lifts' = IF GotBody THEN ParsedLifts ELSE NullLifts
  /\ Record(<<ri, "lifts">>, ~GotBody)
  /\ pc' = "skirama"
  /\ EndFetch
  /\ UNCHANGED <<resorts, ri, si, avalanche, weather, skirama, schedule, allData,
                 docsHtml, docsJson, thrownAt, notMain>>

\* Lines 129-131.
SkiramaCall ==
  /\ pc = "skirama" /\ fst = "idle"
  /\ IF CurrentResort.skiramaUrl
     THEN /\ BeginFetch
          /\ UNCHANGED <<pc, skirama>>
     ELSE /\ skirama' = EmptySkirama
          /\ pc' = "schedule"
          /\ UNCHANGED <<fst, furl, fbody>>
  /\ UNCHANGED <<resorts, ri, si, avalanche, weather, lifts, schedule, allData,
                 failed, fetched, docsHtml, docsJson, thrownAt, notMain>>

\* Lines 132-145 -> 454.
SkiramaSettled ==
  /\ pc = "skirama" /\ Settled
  /\ skirama' = IF GotBody THEN ParsedSkirama ELSE EmptySkirama
  /\ Record(<<ri, "skirama">>, ~GotBody)
  /\ pc' = "schedule"
  /\ EndFetch
  /\ UNCHANGED <<resorts, ri, si, avalanche, weather, lifts, schedule, allData,
                 docsHtml, docsJson, thrownAt, notMain>>

\* Lines 78-80.
ScheduleCall ==
  /\ pc = "schedule" /\ fst = "idle"
  /\ IF CurrentResort.liftScheduleUrl
     THEN /\ BeginFetch
          /\ UNCHANGED <<pc, schedule>>
     ELSE /\ schedule' = NoSchedule
          /\ pc' = "push"
          /\ UNCHANGED <<fst, furl, fbody>>
  /\ UNCHANGED <<resorts, ri, si, avalanche, weather, lifts, skirama, allData,
                 failed, fetched, docsHtml, docsJson, thrownAt, notMain>>

\* Lines 104-107 without the catch: a failure leaves the fetcher and main.
ScheduleSettledNoCatch ==
  /\ pc = "schedule" /\ Settled
  /\ Record(<<ri, "schedule">>, ~GotBody)
  /\ IF GotBody
     THEN /\ schedule' = ParsedSchedule /\ pc' = "push"
          /\ UNCHANGED thrownAt
     ELSE /\ pc' = "exit" /\ thrownAt' = "fetchLiftSchedule"
          /\ UNCHANGED schedule
  /\ EndFetch
  /\ UNCHANGED <<resorts, ri, si, avalanche, weather, lifts, skirama, allData,
                 docsHtml, docsJson, notMain>>

\* Lines 81-107 -> 455.
ScheduleSettled ==
  /\ pc = "schedule" /\ Settled
  /\ schedule' = IF GotBody THEN ParsedSchedule ELSE NoSchedule
  /\ Record(<<ri, "schedule">>, ~GotBody)
  /\ pc' = "push"
  /\ EndFetch
  /\ UNCHANGED <<resorts, ri, si, avalanche, weather, lifts, skirama, allData,
                 docsHtml, docsJson, thrownAt, notMain>>

\* Line 456, and the next turn of the loop with its fresh constants.
PushRecord ==
  /\ pc = "push"
  /\ allData' = Append(allData,
                       [resort |-> CurrentResort, weather |-> weather,
                        lifts |-> lifts, skirama |-> skirama,
                        avalanche |-> avalanche, schedule |-> schedule])
  /\ ToResort(ri + 1)
  /\ weather' = <<>> /\ lifts' = NULL /\ skirama' = NULL /\ schedule' = NULL
  /\ UNCHANGED <<resorts, fst, furl, fbody, avalanche, failed, fetched,
                 docsHtml, docsJson, thrownAt, notMain>>

\* weather['top'] of a record (line 238); undefined when there is no top.
TopOf(rec) ==
  IF \E i \in 1..Len(rec.weather) : rec.resort.elevations[i] = "top"
  THEN rec.weather[CHOOSE i \in 1..Len(rec.weather) : rec.resort.elevations[i] = "top"]
  ELSE NULL

\* Lines 239-263 throw a TypeError on a daily series of another shape.
GenerateThrows ==
  \E i \in 1..Len(allData) : TopOf(allData[i]) = OddReading

\* Lines 459-460.
GenerateHTML ==
  /\ pc = "generate"
  /\ IF GenerateThrows
     THEN pc' = "exit" /\ thrownAt' = "generateHTML"
     ELSE pc' = "writeHtml" /\ UNCHANGED thrownAt
  /\ UNCHANGED <<resorts, ri, si, fst, furl, fbody, avalanche, weather, lifts,
                 skirama, schedule, allData, failed, fetched, docsHtml, docsJson,
                 notMain>>

\* Line 464: writeFileSync replaces index.html, or throws having left the
\* file as it was or cut short.
WriteHtml ==
  /\ pc = "writeHtml"
  /\ \/ /\ docsHtml' = Snapshot(allData)
        /\ pc' = "writeJson"
        /\ UNCHANGED thrownAt
     \/ /\ docsHtml' \in {docsHtml, Truncated}
        /\ pc' = "exit" /\ thrownAt' = "writeHtml"
  /\ UNCHANGED <<resorts, ri, si, fst, furl, fbody, avalanche, weather, lifts,
                 skirama, schedule, allData, failed, fetched, docsJson, notMain>>

\* Line 465: the same for data.json; then line 467.
WriteJson ==
  /\ pc = "writeJson"
  /\ \/ /\ docsJson' = Snapshot(allData)
        /\ pc' = "done"
        /\ UNCHANGED thrownAt
     \/ /\ docsJson' \in {docsJson, Truncated}
        /\ pc' = "exit" /\ thrownAt' = "writeJson"
  /\ UNCHANGED <<resorts, ri, si, fst, furl, fbody, avalanche, weather, lifts,
                 skirama, schedule, allData, failed, fetched, docsHtml, notMain>>

IdleMain ==
  /\ resorts = <<>> /\ pc = "off" /\ ri = 0 /\ si = 0
  /\ fst = "idle" /\ furl = "none" /\ fbody = "none"
  /\ avalanche = NULL /\ weather = <<>> /\ lifts = NULL /\ skirama = NULL
  /\ schedule = NULL /\ allData = <<>> /\ failed = {} /\ fetched = {}
  /\ docsHtml = Previous /\ docsJson = Previous
  /\ thrownAt = "none"

\* Line 10 has read the resort list; docs/ holds the previous run's files.
InitMain ==
  /\ resorts \in ResortLists
  /\ pc = "start" /\ ri = 0 /\ si = 0
  /\ fst = "idle" /\ furl = "none" /\ fbody = "none"
  /\ avalanche = NULL /\ weather = <<>> /\ lifts = NULL /\ skirama = NULL
  /\ schedule = NULL /\ allData = <<>> /\ failed = {} /\ fetched = {}
  /\ docsHtml = Previous /\ docsJson = Previous
  /\ thrownAt = "none"

NextMain ==
  \/ Start
  \/ RespondOk \/ RespondRedirect \/ RespondHttpError \/ TransportError
  \/ ServerSilent
  \/ AvalancheSettled
  \/ WeatherCall \/ WeatherSettled \/ WeatherReturn
  \/ LiftsCall \/ LiftsSettled
  \/ SkiramaCall \/ SkiramaSettled
  \/ ScheduleCall \/ ScheduleSettled
  \/ PushRecord
  \/ GenerateHTML \/ WriteHtml \/ WriteJson

(***************************************************************************)
(* The station row (generateHTML, lines 174-189) and the snow report       *)
(* (lines 226-234) of one record.  stationData is weather[station] and     *)
(* statusData the record's lifts; a snow depth is held in millimetres (the *)
(* forecast gives metres), every other figure as the source gives it.      *)
(***************************************************************************)

\* `${x}` of a figure: the number, or the text of null / undefined.
Interpolated(x) == IF x = NULL THEN [text |-> "null"] ELSE x

\* Math.round(metres * 100) of a depth held in millimetres.
RoundToCm(mm) == (mm + 5) \div 10

\* Line 179.
SnowCm(snow_depth) ==
  IF snow_depth # NULL /\ snow_depth.num # 0
  THEN Num(RoundToCm(snow_depth.num))
  ELSE Num(0)

\* Lines 175-188: the row of a station, or null where line 176 continues.
StationRowOf(d) ==
  IF d = NULL THEN NULL
  ELSE IF d.current = NULL THEN NULL
  ELSE [temp |-> Interpolated(d.current.temperature_2m),
        snow |-> SnowCm(d.current.snow_depth),
        wind |-> Interpolated(d.current.wind_speed_10m)]

\* Lines 226-234: the report, or null where there is none; a depth that is
\* null is left out of it.
SnowReportOf(l) ==
  IF l.baseDepth # NULL \/ l.summitDepth # NULL
  THEN [summit |-> IF l.summitDepth # NULL THEN l.summitDepth ELSE [omitted |-> TRUE],
        base |-> IF l.baseDepth # NULL THEN l.baseDepth ELSE [omitted |-> TRUE]]
  ELSE NULL

\* --- inputs of the row and the report -------------------------------------

\* A figure of the forecast: missing, zero or some value.
TemperaturePool == { NULL, Num(0), Num(-3) }
SnowDepthPool   == { NULL, Num(0), Num(4), Num(1250) }
WindPool        == { NULL, Num(0), Num(12) }
DepthPool       == { NULL, Num(0), Num(40) }

CurrentPool ==
  [temperature_2m : TemperaturePool, snow_depth : SnowDepthPool,
   wind_speed_10m : WindPool]

\* A station that failed (line 38), a forecast without current, a forecast.
StationPool ==
  { NULL, [current |-> NULL] } \cup { [current |-> c] : c \in CurrentPool }

\* The record's lifts with the depths the status page gave or did not give.
StatusPool ==
  { [NullLifts EXCEPT !.baseDepth = b, !.summitDepth = t] :
      b \in DepthPool, t \in DepthPool }

IdleView ==
  /\ stationData = NULL /\ statusData = NULL
  /\ stationRow = NULL /\ snowReport = NULL /\ vpc = "off"

InitView ==
  /\ stationData \in StationPool
  /\ statusData \in StatusPool
  /\ stationRow = NULL /\ snowReport = NULL
  /\ vpc = "call"

\* One turn of the loop of line 174 and the report of lines 226-234.
RenderCard ==
  /\ vpc = "call"
  /\ stationRow' = StationRowOf(stationData)
  /\ snowReport' = SnowReportOf(statusData)
  /\ vpc' = "rendered"
  /\ UNCHANGED <<stationData, statusData>>

NextView == RenderCard /\ UNCHANGED <<matchVars, snowVars, avalVars, schedVars, mainVars>>

(***************************************************************************)
(* Specifications                                                          *)
(***************************************************************************)

StartMatch == InitMatch /\ IdleSnow /\ IdleAval /\ IdleSched /\ IdleView /\ IdleMain

SpecMatch ==
  /\ StartMatch
  /\ [][NextMatch]_vars

StartSnow == InitSnow /\ IdleMatch /\ IdleAval /\ IdleSched /\ IdleView /\ IdleMain

SpecSnow ==
  /\ StartSnow
  /\ [][NextSnow]_vars

StartAval == InitAval /\ IdleMatch /\ IdleSnow /\ IdleSched /\ IdleView /\ IdleMain

SpecAval ==
  /\ StartAval
  /\ [][NextAval]_vars

StartSched == InitSched /\ IdleMatch /\ IdleSnow /\ IdleAval /\ IdleView /\ IdleMain

SpecSched ==
  /\ StartSched
  /\ [][NextSched]_vars

StartView == InitView /\ IdleMatch /\ IdleSnow /\ IdleAval /\ IdleSched /\ IdleMain

SpecView ==
  /\ StartView
  /\ [][NextView]_vars

\* The event loop runs whatever is ready: a response that has arrived, a
\* continuation whose await has settled.  Nothing obliges a source to answer
\* in any particular way.
StartMain == InitMain /\ IdleMatch /\ IdleSnow /\ IdleAval /\ IdleSched /\ IdleView

SpecMain ==
  /\ StartMain
  /\ [][NextMain]_vars
  /\ WF_vars(NextMain)

(***************************************************************************)
(* Properties of the matcher                                               *)
(***************************************************************************)

NormalizedLiftName == NormalizeName(liftName)

\* No key equals the name or contains it or is contained in it.
NoDirectMatch ==
  \A i \in 1..Len(hours) : ~ContainsEitherWay(NormalizedLiftName, hours[i].key)

\* The overlap count the matcher gives entry i.
ScoreOf(i) ==
  Overlap(MeaningfulWords(NormalizedLiftName), MeaningfulWords(hours[i].key))

\* The number of different tokens the name and key i have in common.
CommonTokens(i) ==
  Cardinality(Range(MeaningfulWords(NormalizedLiftName))
                \cap Range(MeaningfulWords(hours[i].key)))

TieAtTop ==
  \E i, j \in 1..Len(hours) :
    /\ i # j
    /\ ScoreOf(i) = ScoreOf(j)
    /\ \A k \in 1..Len(hours) : ScoreOf(k) <= ScoreOf(i)

\* The name repeats none of its tokens, so that the matcher's count is the
\* number of common tokens.
NoRepeatedToken ==
  LET ws == MeaningfulWords(NormalizedLiftName)
  IN  \A i, j \in 1..Len(ws) : i # j => ws[i] # ws[j]

\* C1: with no exact or containment match, two keys attaining the same
\* highest overlap count give no match (null), in any key order.  Stated for
\* names that repeat no token, the case C2 is about.
C1_TieMeansNoMatch ==
  (mpc = "returned" /\ NoDirectMatch /\ NoRepeatedToken /\ TieAtTop)
  => matched = NULL

\* C2: with no exact or containment match, when every key shares at most
\* one token with the name the result is no match (null), also when that
\* token occurs more than once in the name.
C2_SingleTokenNoMatch ==
  (mpc = "returned" /\ NoDirectMatch
     /\ \A i \in 1..Len(hours) : CommonTokens(i) <= 1)
  => matched = NULL

\* C3: when some key equals the upper-cased, whitespace-collapsed name, the
\* matcher returns that key's entry, whatever the other keys and their order.
C3_ExactMatchWins ==
  mpc = "returned" =>
    \A i \in 1..Len(hours) :
      hours[i].key = NormalizedLiftName => matched = hours[i]

\* C3's case: the exact key comes second, after a key the name contains, and
\* the name needed normalizing.
C3_Witness ==
  /\ mpc = "returned"
  /\ Len(hours) = 2
  /\ liftName # NormalizedLiftName
  /\ hours[2].key = NormalizedLiftName
  /\ Includes(NormalizedLiftName, hours[1].key)
  /\ hours[1].key # <<>>
  /\ matched = hours[2]

(***************************************************************************)
(* Properties of the snowfall windows                                      *)
(***************************************************************************)

\* The total over the entries dated lo..hi, a missing value counting 0.
DatedSum(lo, hi) ==
  SeqSum([i \in 1..Len(times) |->
            IF lo <= times[i] /\ times[i] <= hi THEN OrZero(snows[i]) ELSE 0])

\* C4: the past sum is the total dated before today, the near-term sum the
\* total dated today..today+2, the extended sum the total dated
\* today..today+6.
C4_WindowsByDate ==
  spc = "done" =>
    /\ fresh3 = DatedSum(0, today - 1)
    /\ next3 = DatedSum(today, today + 2)
    /\ next7 = DatedSum(today, today + 6)

(***************************************************************************)
(* Properties of the avalanche aggregation                                 *)
(***************************************************************************)

CategoryLevel ==
  [low |-> 1, moderate |-> 2, considerable |-> 3, high |-> 4, very_high |-> 5]

LevelLabel == <<"Low", "Moderate", "Considerable", "High", "Very High">>
LevelColor == <<"#4CAF50", "#FFEB3B", "#FF9800", "#F44336", "#000">>
LevelEmoji == <<"green", "yellow", "orange", "red", "black">>

\* The categories of all ratings of all sub-regions of the document.
AllMainValues ==
  LET bs == OrEmpty(bulletin.bulletins)
  IN  UNION { { OrEmpty(bs[i].dangerRatings)[j].mainValue
                  : j \in 1..Len(OrEmpty(bs[i].dangerRatings)) }
              : i \in 1..Len(bs) }

RatedLevels == { CategoryLevel[v] : v \in AllMainValues \cap DOMAIN CategoryLevel }

\* C10: the level is the maximum over all ratings of all sub-regions, lies
\* in 1..5, is 1 ("Low") when nothing recognized is rated, and label, color
\* and emoji are those of the level.
C10_AvalancheMax ==
  apc = "returned" =>
    /\ assessment.level \in 1..5
    /\ \A l \in RatedLevels : l <= assessment.level
    /\ assessment.level \in RatedLevels \cup {1}
    /\ RatedLevels = {} => (assessment.level = 1 /\ assessment.label = "Low")
    /\ assessment.label = LevelLabel[assessment.level]
    /\ assessment.color = LevelColor[assessment.level]
    /\ assessment.emoji = LevelEmoji[assessment.level]

\* C10's case: the first sub-region is rated higher than the second.
C10_Witness ==
  /\ apc = "returned"
  /\ bulletin.bulletins # NULL
  /\ Len(bulletin.bulletins.items) = 2
  /\ bulletin.bulletins.items[1].dangerRatings = List(<<[mainValue |-> "high"]>>)
  /\ bulletin.bulletins.items[2].dangerRatings = List(<<[mainValue |-> "moderate"]>>)
  /\ assessment.level = 4
  /\ assessment.label = "High"

(***************************************************************************)
(* Properties of the run                                                   *)
(***************************************************************************)

\* C5: a run that completes leaves both files holding its snapshot, and a
\* run that does not complete exits non-zero and leaves both previous files
\* untouched.
C5_SnapshotAtomic ==
  /\ pc = "done" => (docsHtml = Snapshot(allData) /\ docsJson = Snapshot(allData))
  /\ pc = "exit" => (docsHtml = Previous /\ docsJson = Previous)

\* C6: a fetch that is being redirected stops requesting after finitely
\* many requests: it settles (or is left unanswered, which is C7's case).
C6_RedirectsSettle ==
  (fst = "inflight" /\ furl \in Locations) ~> (fst # "inflight")

\* C7: when a source accepts a request and never responds, the fetch is
\* ended all the same and the run reaches completion.
C7_SilentSourceNoStall ==
  (fst = "hung") ~> (pc = "done")

\* What a stage leaves in a record, given whether its fetch was made and
\* whether it failed.
StageValueOk(id, value, unavailable, populated) ==
  IF id \in failed THEN value = unavailable
  ELSE IF id \in fetched THEN value \in populated
  ELSE value = unavailable

RecordIsolated(r, rec) ==
  /\ Len(rec.weather) = Len(rec.resort.elevations)
  /\ \A i \in 1..Len(rec.weather) :
       /\ <<r, rec.resort.elevations[i]>> \in fetched
       /\ StageValueOk(<<r, rec.resort.elevations[i]>>, rec.weather[i], NULL,
                       {GoodReading, OddReading})
  /\ <<r, "lifts">> \in fetched
  /\ StageValueOk(<<r, "lifts">>, rec.lifts, NullLifts, {ParsedLifts})
  /\ StageValueOk(<<r, "skirama">>, rec.skirama, EmptySkirama, {ParsedSkirama})
  /\ StageValueOk(<<r, "schedule">>, rec.schedule, NoSchedule, {ParsedSchedule})

\* C8: every stage's data in every record is the stage's unavailable value
\* when its own fetch or parse failed and its parsed data when it did not,
\* whatever happened to the other stages and resorts, and no fetcher's
\* failure reaches main.
C8_StageIsolation ==
  /\ \A r \in 1..Len(allData) : RecordIsolated(r, allData[r])
  /\ thrownAt \in {"none", "generateHTML", "writeHtml", "writeJson"}
  /\ pc = "exit" => thrownAt # "none"

\* C8's case: the run is done, and a resort's forecasts all failed while its
\* status page was read.
C8_Witness ==
  /\ pc = "done"
  /\ \E r \in 1..Len(allData) :
       /\ \A i \in 1..Len(allData[r].weather) : allData[r].weather[i] = NULL
       /\ <<r, "top">> \in failed
       /\ <<r, "lifts">> \notin failed
       /\ allData[r].lifts = ParsedLifts
       /\ allData[r].lifts.liftsOpen = Num(5)

AllUnknown(rec) ==
  /\ rec.weather = [i \in 1..Len(rec.resort.elevations) |-> NULL]
  /\ rec.lifts = NullLifts
  /\ rec.skirama = EmptySkirama
  /\ rec.schedule = NoSchedule
  /\ rec.avalanche = NULL

\* One record per configured resort, in order, every field unknown or empty.
SnapshotAllUnknown ==
  /\ docsJson = Snapshot(allData)
  /\ docsHtml = Snapshot(allData)
  /\ Len(allData) = Len(resorts)
  /\ \A i \in 1..Len(allData) :
       allData[i].resort = resorts[i] /\ AllUnknown(allData[i])

\* The run has left the case of C9: some fetch succeeded, was redirected or
\* stays unanswered, or a file write failed.
NotAllUnreachable ==
  \/ ~(fetched \subseteq failed)
  \/ fst = "hung"
  \/ furl \in Locations
  \/ thrownAt \in {"writeHtml", "writeJson"}

\* C9: a run in which every fetch fails (transport error or status >= 400)
\* and the files can be written reaches the end of main with a snapshot of
\* one record per resort, every field unknown or empty.
C9_CompletesAllUnreachable ==
  <>(NotAllUnreachable \/ (pc = "done" /\ SnapshotAllUnknown))

\* C9's case: two resorts, the first with every page configured, every fetch of
\* the run failed, and main is done.
C9_Witness ==
  /\ pc = "done"
  /\ Len(resorts) = 2
  /\ resorts[1] = PagesResort
  /\ <<0, "avalanche">> \in fetched
  /\ <<1, "schedule">> \in fetched
  /\ fetched \subseteq failed
  /\ SnapshotAllUnknown

\* The run was stopped by something other than the bulletin: a source that
\* never answers, or a failure of generateHTML or of a file write.
StoppedElsewhere ==
  \/ fst = "hung"
  \/ pc = "exit" /\ thrownAt \in {"generateHTML", "writeHtml", "writeJson"}

\* main's avalanche value is that of the one bulletin fetch: null until it
\* has settled and when it failed, the assessment when it did not; it
\* settles before any record exists and is not made again; and every record
\* appended so far carries that value.
OneAvalancheValue ==
  /\ <<0, "avalanche">> \notin fetched =>
       (avalanche = NULL /\ allData = <<>> /\ pc \in {"start", "avalanche"})
  /\ <<0, "avalanche">> \in fetched => pc \notin {"start", "avalanche"}
  /\ <<0, "avalanche">> \in failed => avalanche = NULL
  /\ <<0, "avalanche">> \in fetched \ failed =>
       avalanche = AggregateBulletin(SampleBulletin)
  /\ \A r \in 1..Len(allData) : allData[r].avalanche = avalanche

\* The run is done with one record per resort, none with avalanche info.
DoneWithoutAvalanche ==
  /\ pc = "done"
  /\ <<0, "avalanche">> \in failed
  /\ Len(allData) = Len(resorts)
  /\ \A r \in 1..Len(allData) : allData[r].avalanche = NULL

\* C11: all records carry the one avalanche value of the run, fetched once
\* before any resort; a failed bulletin fetch or parse gives null and does
\* not reach main; and a run whose bulletin fails goes on through every
\* resort to completion with null in every record, unless a source answers
\* with a redirect or the run is stopped elsewhere.
C11_AvalancheDegrades ==
  /\ [](OneAvalancheValue)
  /\ [](<<0, "avalanche">> \in failed => thrownAt # "fetchAvalancheData")
  /\ <>(\/ <<0, "avalanche">> \in fetched \ failed
        \/ StoppedElsewhere
        \/ furl \in Locations
        \/ DoneWithoutAvalanche)

\* C11's case: the bulletin failed, the run is done with two records, both
\* without avalanche info, and the first resort's status page was read.
C11_Witness ==
  /\ pc = "done"
  /\ <<0, "avalanche">> \in failed
  /\ Len(allData) = 2
  /\ allData[1].avalanche = NULL /\ allData[2].avalanche = NULL
  /\ allData[1].lifts = ParsedLifts
  /\ docsJson = Snapshot(allData)

\* The stage a fetch of the run belongs to, in the order main reaches them:
\* the stations of the resort, the status page, and the live map and the
\* schedule where the resort has their URLs.
ResortPlan(r) ==
  [i \in 1..Len(resorts[r].elevations) |-> <<r, resorts[r].elevations[i]>>]
  \o << <<r, "lifts">> >>
  \o (IF resorts[r].skiramaUrl THEN << <<r, "skirama">> >> ELSE <<>>)
  \o (IF resorts[r].liftScheduleUrl THEN << <<r, "schedule">> >> ELSE <<>>)

RECURSIVE PlanFrom(_)
PlanFrom(r) ==
  IF r > Len(resorts) THEN <<>> ELSE ResortPlan(r) \o PlanFrom(r + 1)

StagePlan == << <<0, "avalanche">> >> \o PlanFrom(1)

\* The fetch main is waiting for.
AwaitedFetch ==
  CASE pc = "avalanche" -> <<0, "avalanche">>
    [] pc = "weather" -> <<ri, CurrentStation>>
    [] OTHER -> <<ri, pc>>

\* C12: the fetches that have settled are an initial part of the plan
\* (bulletin, then for each resort in list order its stations, status page,
\* live map, schedule), the one fetch outstanding is the next of the plan, a
\* record is appended only after all its resort's stages, a resort is begun
\* only after the record before it is appended, and the records follow the
\* resort list.
C12_StageOrder ==
  LET plan == StagePlan
      k == Cardinality(fetched)
  IN  /\ k <= Len(plan)
      /\ fetched = { plan[i] : i \in 1..k }
      /\ fst # "idle" => (k < Len(plan) /\ AwaitedFetch = plan[k + 1])
      /\ Len(allData) <= Len(resorts)
      /\ \A r \in 1..Len(allData) :
           /\ allData[r].resort = resorts[r]
           /\ Range(ResortPlan(r)) \subseteq fetched
      /\ \A id \in fetched : id[1] >= 1 => Len(allData) >= id[1] - 1
      /\ pc \in {"generate", "writeHtml", "writeJson", "done"} =>
           (Len(allData) = Len(resorts) /\ k = Len(plan))

\* C12's case: a run over a resort with every page and then one with two
\* stations is done, all eight fetches settled.
C12_Witness ==
  /\ pc = "done"
  /\ resorts = <<PagesResort, StationsResort>>
  /\ Cardinality(fetched) = 8
  /\ fetched = Range(StagePlan)
  /\ Len(allData) = 2
  /\ allData[2].resort = StationsResort

(***************************************************************************)
(* Properties of the schedule scan                                         *)
(***************************************************************************)

\* The blocks of the page: a paragraph with a list right after it.
Blocks ==
  { i \in 1..(Len(page) - 1) : page[i].kind = "p" /\ page[i + 1].kind = "ul" }

\* The label paragraph of block i and the time range of its list.
LabelOf(i) == CleanText(page[i].text)

RangeOf(i) == TimeMatch(CleanText(page[i + 1].text))

\* Blocks with a recognized lift-type prefix and a parsable time range.
ParsedBlocks ==
  { i \in Blocks : LiftTypeEnd(LabelOf(i)) > 0 /\ RangeOf(i) # NULL }

OpenMinutes(i) == ParseInt(RangeOf(i).oH) * 60 + ParseInt(RangeOf(i).oM)

CloseMinutes(i) == ParseInt(RangeOf(i).cH) * 60 + ParseInt(RangeOf(i).cM)

\* The parts of a clock string before and after its colon.
ColonAt(str) == CHOOSE k \in 1..Len(str) : str[k] = ":"

HourPart(str) == SubSeq(str, 1, ColonAt(str) - 1)

MinutePart(str) == SubSeq(str, ColonAt(str) + 1, Len(str))

\* str is 'H:MM' for hour h and minute m: no leading zero in the hour, two
\* digits of minutes.
IsClock(str, h, m) ==
  /\ \E k \in 1..Len(str) : str[k] = ":"
  /\ Len(HourPart(str)) >= 1
  /\ (Len(HourPart(str)) > 1 => HourPart(str)[1] # "0")
  /\ ParseInt(HourPart(str)) = h
  /\ Len(MinutePart(str)) = 2
  /\ ParseInt(MinutePart(str)) = m

HoursEntries == { extracted.hours[k] : k \in 1..Len(extracted.hours) }

\* Every paragraph of the page has its list right after it.
EveryParagraphHasList ==
  \A i \in 1..Len(page) : page[i].kind = "p" => i \in Blocks

\* Every parsed block's label has a name after its type word.
EveryParsedLabelNamed ==
  \A i \in ParsedBlocks : CanonicalName(LabelOf(i)) # <<>>

\* C13: generalOpen is the clock time of the earliest open and generalClose
\* of the latest close among the parsed blocks, each the string recorded for
\* some lift of hours (both null when no block parsed); every entry of hours
\* records the range of a parsed block of its name as 'H:MM', and
\* '9.00 - 16.30' (with an en dash) gives '9:00' and '16:30'.  Stated for
\* pages in which every paragraph has its list and every parsed label has a
\* name, the other pages being the cases of C14 and C18.
C13_GeneralWindow ==
  (xpc = "returned" /\ EveryParagraphHasList /\ EveryParsedLabelNamed) =>
    /\ ParsedBlocks = {} =>
         (extracted.generalOpen = NULL /\ extracted.generalClose = NULL)
    /\ ParsedBlocks # {} =>
         /\ extracted.generalOpen # NULL /\ extracted.generalClose # NULL
         /\ \E i \in ParsedBlocks :
              /\ \A j \in ParsedBlocks : OpenMinutes(i) <= OpenMinutes(j)
              /\ IsClock(extracted.generalOpen.str,
                         ParseInt(RangeOf(i).oH), ParseInt(RangeOf(i).oM))
         /\ \E i \in ParsedBlocks :
              /\ \A j \in ParsedBlocks : CloseMinutes(i) >= CloseMinutes(j)
              /\ IsClock(extracted.generalClose.str,
                         ParseInt(RangeOf(i).cH), ParseInt(RangeOf(i).cM))
         /\ \E e \in HoursEntries : e.val.open = extracted.generalOpen.str
         /\ \E e \in HoursEntries : e.val.close = extracted.generalClose.str
    /\ \A e \in HoursEntries :
         \E i \in ParsedBlocks :
           /\ CanonicalName(LabelOf(i)) = e.key
           /\ IsClock(e.val.open, ParseInt(RangeOf(i).oH), ParseInt(RangeOf(i).oM))
           /\ IsClock(e.val.close, ParseInt(RangeOf(i).cH), ParseInt(RangeOf(i).cM))
           /\ page[i + 1].text = <<"9", ".", "0", "0", " ", "ndash", " ", "1", "6", ".", "3", "0">> =>
                /\ e.val.open = <<"9", ":", "0", "0">>
                /\ e.val.close = <<"1", "6", ":", "3", "0">>

\* C14: the keys of hours are the canonical names of the parsed blocks, each
\* block judged by its own label paragraph and its own list whatever stands
\* before or after it, and the general window is that of the parsed blocks
\* alone.
C14_ScanNotInterrupted ==
  xpc = "returned" =>
    /\ { e.key : e \in HoursEntries }
         = { CanonicalName(LabelOf(i)) : i \in ParsedBlocks }
    /\ ParsedBlocks = {} =>
         (extracted.generalOpen = NULL /\ extracted.generalClose = NULL)
    /\ ParsedBlocks # {} =>
         /\ extracted.generalOpen # NULL /\ extracted.generalClose # NULL
         /\ \E i \in ParsedBlocks :
              /\ \A j \in ParsedBlocks : OpenMinutes(i) <= OpenMinutes(j)
              /\ extracted.generalOpen.str = toTime(OpenMinutes(i))
         /\ \E i \in ParsedBlocks :
              /\ \A j \in ParsedBlocks : CloseMinutes(i) >= CloseMinutes(j)
              /\ extracted.generalClose.str = toTime(CloseMinutes(i))

\* C18: every key of hours is a non-empty name, and no entry is one that
\* the containment step of matchLiftHours gives to every status name.
C18_KeysNonEmpty ==
  xpc = "returned" =>
    \A e \in HoursEntries :
      /\ e.key # <<>>
      /\ \E n \in NamePool : ~ContainsEitherWay(NormalizeName(n), e.key)

(***************************************************************************)
(* Properties of the station row and the snow report                       *)
(***************************************************************************)

\* What the view shows for a figure of the source: the figure itself when
\* the source has it, and something that is not the number 0 when not.
ShownAsParsed(source, shown, whenPresent) ==
  IF source = NULL THEN shown # Num(0) ELSE shown = whenPresent

\* C15: in the station row, temperature, snow depth and wind speed, and in
\* the snow report, base and summit depth, each show the source's value
\* (the depth rounded to centimetres) or, when the source has none, not 0.
C15_NoDefaultedZero ==
  vpc = "rendered" =>
    /\ stationRow # NULL =>
         LET c == stationData.current
         IN  /\ ShownAsParsed(c.temperature_2m, stationRow.temp, c.temperature_2m)
             /\ ShownAsParsed(c.wind_speed_10m, stationRow.wind, c.wind_speed_10m)
             /\ ShownAsParsed(c.snow_depth, stationRow.snow,
                              IF c.snow_depth = NULL THEN NULL
                              ELSE Num(RoundToCm(c.snow_depth.num)))
    /\ snowReport # NULL =>
         /\ ShownAsParsed(statusData.baseDepth, snowReport.base, statusData.baseDepth)
         /\ ShownAsParsed(statusData.summitDepth, snowReport.summit,
                          statusData.summitDepth)

(***************************************************************************)
(* Properties of 'today' and of missing daily values                       *)
(***************************************************************************)

\* The entries the code puts in the past sum, in the extended sum and in
\* the near-term sum.
PastEntries == { i \in 1..Len(times) : times[i] < today }

FutureEntries == { i \in 1..Len(times) : times[i] >= today }

NearEntries ==
  { i \in FutureEntries :
      Cardinality({ j \in FutureEntries : j < i }) < NearTermCount }

\* C16: the series is split at the date of the instant in Europe/Rome, the
\* calendar of the series: the entries dated before that day are in the past
\* sum, and the entry dated with that day is in the near-term and extended
\* sums and not in the past sum.
C16_TodayInSeriesCalendar ==
  spc = "done" =>
    \A i \in 1..Len(times) :
      /\ times[i] < RomeDate(now, romeOffset) =>
           (i \in PastEntries /\ i \notin FutureEntries)
      /\ times[i] = RomeDate(now, romeOffset) =>
           (i \in NearEntries /\ i \in FutureEntries /\ i \notin PastEntries)

\* The total of the values the source gave for the entries of S.
GivenSum(S) ==
  SeqSum([i \in 1..Len(times) |->
            IF i \in S /\ snows[i] # NULL THEN snows[i].num ELSE 0])

\* C17: each sum is a number, the total of the values given for its
\* entries, a missing value adding nothing; when every value is zero or
\* missing the three figures shown are '0.0'.
C17_MissingCountsZero ==
  spc = "done" =>
    /\ fresh3 \in Nat /\ next3 \in Nat /\ next7 \in Nat
    /\ fresh3 = GivenSum(PastEntries)
    /\ next3 = GivenSum(NearEntries)
    /\ next7 = GivenSum(FutureEntries)
    /\ (\A i \in 1..Len(snows) : snows[i] \in {NULL, Num(0)}) =>
         /\ SnowForecastInfo.fresh = <<"0", ".", "0">>
         /\ SnowForecastInfo.next3d = <<"0", ".", "0">>
         /\ SnowForecastInfo.next7d = <<"0", ".", "0">>

\* C17's case: a missing value before today, one from today on, and a
\* given value after it.
C17_Witness ==
  /\ spc = "done"
  /\ Len(times) = 3
  /\ snows = <<NULL, NULL, Num(1)>>
  /\ times[1] < today /\ times[2] >= today
  /\ fresh3 = 0 /\ next3 = 1 /\ next7 = 1
  /\ SnowForecastInfo.fresh = <<"0", ".", "0">>
  /\ SnowForecastInfo.next3d = <<"0", ".", "1">>

=============================================================================
